---- MODULE Spec2Model ----
(***************************************************************************)
(* Model of fast_forward.index.disk.OnDiskIndex: one index file on disk    *)
(* (an HDF5 container with a resizable "vectors" dataset, its num_vectors  *)
(* attribute and the /ids/doc and /ids/psg groups) and one handle to it.   *)
(* Offsets are 0-based as in the code; slot i of the dataset is            *)
(* vectors[i + 1].  The retrieval mode, which _get_vectors reads from the  *)
(* handle at call time, is an input of the GetVectors action.              *)
(*                                                                         *)
(* fast_forward.util.create_coalesced_index reads a second index, source,  *)
(* and appends to the index file above, which is then its target.          *)
(***************************************************************************)
EXTENDS Integers, Sequences, FiniteSets, TLC

VARIABLES
    fs_kind,        \* what index_file holds: "absent", "other" (no store layout), "store"
    capacity,       \* fp["vectors"].shape[0]
    dim,            \* fp["vectors"].shape[1]
    num_vectors,    \* fp["vectors"].attrs["num_vectors"]
    vectors,        \* rows of fp["vectors"], a sequence of length capacity
    ids_doc,        \* /ids/doc/<doc_id> -> sequence of offsets (domain = datasets present)
    ids_psg,        \* /ids/psg/<psg_id> -> offset
    ff_version,     \* fp.attrs["ff_version"]
    has_index,      \* an OnDiskIndex object has been constructed or loaded
    resize_min_val, \* index._resize_min_val
    ret,            \* outcome of the last call
    added,          \* history: every (vector, doc_id, psg_id) appended since creation
    source          \* the index create_coalesced_index reads: its file and its mode

vars == <<fs_kind, capacity, dim, num_vectors, vectors, ids_doc, ids_psg,
          ff_version, has_index, resize_min_val, ret, added, source>>

file == <<fs_kind, capacity, dim, num_vectors, vectors, ids_doc, ids_psg, ff_version>>

(* Bounds of the model. *)
MaxBatch == 2
MaxVectors == 2
MaxInitSize == 1
MaxResizeMin == 2
MaxReq == 2
MaxSrc == 3
MaxBatchSize == 2

Rows == {1, 2}
Dims == {1, 2}
Fill == 0
Ids == {"a", "b"}
None == "None"
OptIds == Ids \cup {None}
Modes == {"PASSAGE", "FIRSTP", "MAXP", "AVEP"}
Version == "ff_version"
NoVersion == "no_version"

(* resize_min_val arguments: a value below 2 never changes NewSize, since a resize *)
(* is always to at least count + n >= 1.                                          *)
ResizeMinVals == {0, MaxResizeMin}

Entries == [vec : Rows, doc : OptIds, psg : OptIds]
BatchesOf(n) == [1..n -> Entries]
Requests == UNION {[1..n -> Ids] : n \in 0..MaxReq}

Max(a, b) == IF a >= b THEN a ELSE b

EmptyMap == [x \in {} |-> 0]

(* The outcome of a call: the operation, "ok" or the exception raised, the call's   *)
(* arguments and, for _add and _get_vectors, the handler's locals.                 *)
Ret(op, status) ==
    [op |-> op, status |-> status,
     dim |-> 0, init_size |-> 0, overwrite |-> FALSE,            \* __init__ arguments
     n |-> 0, cur |-> 0, cap |-> 0, resized |-> FALSE,           \* _add locals
     mode |-> None, ids |-> <<>>,                                \* _get_vectors inputs
     idxs |-> <<>>, vectors |-> <<>>, groups |-> <<>>,           \* _get_vectors results
     delta |-> <<>>, batch_size |-> 0, order |-> <<>>,           \* create_coalesced_index inputs
     uninit |-> <<>>, line |-> 0, trace |-> <<>>]               \* and its course

InitFile ==
    /\ fs_kind = "absent"
    /\ capacity = 0
    /\ dim = 0
    /\ num_vectors = 0
    /\ vectors = <<>>
    /\ ids_doc = EmptyMap
    /\ ids_psg = EmptyMap
    /\ ff_version = NoVersion
    /\ has_index = FALSE
    /\ resize_min_val = 0
    /\ ret = Ret("none", "ok")
    /\ added = <<>>

(* An index as a value: the file's dataset, count and identifier index. *)
Store(cap, n, vecs, docm, psgm) ==
    [capacity |-> cap, num_vectors |-> n, vectors |-> vecs, ids_doc |-> docm, ids_psg |-> psgm]

(* __init__, lines 56-63: the file of a new index *)
EmptyStore(init_size) ==
    Store(init_size, 0, [i \in 1..init_size |-> Fill], EmptyMap, EmptyMap)

(* An index object: its file and the retrieval mode set on the object. *)
WithMode(st, m) ==
    [capacity |-> st.capacity, num_vectors |-> st.num_vectors, vectors |-> st.vectors,
     ids_doc |-> st.ids_doc, ids_psg |-> st.ids_psg, mode |-> m]

NoSource == WithMode(EmptyStore(0), "MAXP")

Init ==
    /\ InitFile
    /\ source = NoSource

(* Variant of CreateRefused: the existence check is skipped. *)
CreateRefusedNever(kind, overwrite) == FALSE

(* __init__, line 48: index_file.exists() and not overwrite *)
CreateRefused(kind, overwrite) == kind # "absent" /\ ~overwrite

CreateRet(status, d, init_size, overwrite) ==
    [Ret("create", status) EXCEPT !.dim = d, !.init_size = init_size,
                                  !.overwrite = overwrite]

(* OnDiskIndex.__init__ *)
Create(d, init_size, rmv, overwrite) ==
    IF CreateRefused(fs_kind, overwrite)
    THEN /\ ret' = Ret("create", "ValueError")
         /\ UNCHANGED <<file, has_index, resize_min_val, added, source>>
    ELSE /\ fs_kind' = "store"
         /\ capacity' = init_size
         /\ dim' = d
         /\ num_vectors' = 0
         /\ vectors' = [i \in 1..init_size |-> Fill]
         /\ ids_doc' = EmptyMap
         /\ ids_psg' = EmptyMap
         /\ ff_version' = Version
         /\ has_index' = TRUE
         /\ resize_min_val' = rmv
         /\ ret' = CreateRet("ok", d, init_size, overwrite)
         /\ added' = <<>>
         /\ UNCHANGED source

(* OnDiskIndex.load *)
Load(rmv) ==
    /\ has_index' = TRUE
    /\ resize_min_val' = rmv
    /\ ret' = Ret("load", "ok")
    /\ UNCHANGED <<file, added, source>>

(* OnDiskIndex.__len__ *)
IndexLen == num_vectors

(* OnDiskIndex._get_doc_ids *)
GetDocIds == DOMAIN ids_doc

(* OnDiskIndex._get_psg_ids *)
GetPsgIds == DOMAIN ids_psg

(* Variant of NewSize: the dataset is resized to the growth alone, not to capacity plus growth. *)
NewSizeGrowthOnly(cap, cur, n, rmv) ==
    LET space_left == cap - cur
    IN  IF n > space_left THEN Max(n - space_left, rmv) ELSE cap

(* _add, lines 88-91: the size the dataset is resized to *)
NewSize(cap, cur, n, rmv) ==
    LET space_left == cap - cur
    IN  IF n > space_left THEN Max(cap + n - space_left, rmv) ELSE cap

(* Variant of Resize: the grown dataset is allocated afresh, old rows are not copied. *)
ResizeLossy(vecs, new_size) == [i \in 1..new_size |-> Fill]

(* Dataset.resize along axis 0: kept rows keep their contents, new rows hold the fill value *)
Resize(vecs, new_size) ==
    [i \in 1..new_size |-> IF i <= Len(vecs) THEN vecs[i] ELSE Fill]

(* Variant of WriteRows: the batch is written back to front. *)
WriteRowsReversed(vecs, cur, rows) ==
    [i \in 1..Len(vecs) |->
        IF i > cur /\ i <= cur + Len(rows) THEN rows[Len(rows) - (i - cur) + 1] ELSE vecs[i]]

(* _add, line 96: fp["vectors"][cur : cur + n] = vectors *)
WriteRows(vecs, cur, rows) ==
    [i \in 1..Len(vecs) |->
        IF i > cur /\ i <= cur + Len(rows) THEN rows[i - cur] ELSE vecs[i]]

(* Variant of RecordDoc: the offset recorded is one past the slot written. *)
RecordDocNextSlot(docm, d, off) ==
    IF d = None THEN docm
    ELSE [x \in DOMAIN docm \cup {d} |->
            IF x = d
            THEN (IF d \in DOMAIN docm THEN Append(docm[d], off + 1) ELSE <<off + 1>>)
            ELSE docm[x]]

(* _add, lines 101-105 *)
RecordDoc(docm, d, off) ==
    IF d = None THEN docm
    ELSE [x \in DOMAIN docm \cup {d} |->
            IF x = d
            THEN (IF d \in DOMAIN docm THEN Append(docm[d], off) ELSE <<off>>)
            ELSE docm[x]]

(* Variant of RecordPsg: an id already recorded keeps its first offset. *)
RecordPsgKeepFirst(psgm, p, off) ==
    IF p = None \/ p \in DOMAIN psgm THEN psgm
    ELSE [x \in DOMAIN psgm \cup {p} |-> IF x = p THEN off ELSE psgm[x]]

(* _add, lines 107-109 *)
RecordPsg(psgm, p, off) ==
    IF p = None THEN psgm
    ELSE [x \in DOMAIN psgm \cup {p} |-> IF x = p THEN off ELSE psgm[x]]

(* _add, lines 100-109: the identifier index after the first k items of the batch *)
RECURSIVE RecordIds(_, _, _, _, _)
RecordIds(docm, psgm, batch, cur, k) ==
    IF k = 0 THEN [doc |-> docm, psg |-> psgm]
    ELSE LET prev == RecordIds(docm, psgm, batch, cur, k - 1)
             off == cur + (k - 1)
         IN  [doc |-> RecordDoc(prev.doc, batch[k].doc, off),
              psg |-> RecordPsg(prev.psg, batch[k].psg, off)]

BatchRows(batch) == [i \in 1..Len(batch) |-> batch[i].vec]

AddRet(status, n, cur, cap) ==
    [Ret("add", status) EXCEPT !.n = n, !.cur = cur, !.cap = cap,
                               !.resized = (n > cap - cur)]

(* OnDiskIndex._add *)
Add(batch) ==
    /\ has_index
    /\ num_vectors + Len(batch) <= MaxVectors
    /\ CASE fs_kind = "store" ->
              LET n == Len(batch)
                  cur == num_vectors
                  new_size == NewSize(capacity, cur, n, resize_min_val)
                  recorded == RecordIds(ids_doc, ids_psg, batch, cur, n)
              IN  /\ capacity' = new_size
                  /\ vectors' = WriteRows(Resize(vectors, new_size), cur, BatchRows(batch))
                  /\ num_vectors' = cur + n
                  /\ ids_doc' = recorded.doc
                  /\ ids_psg' = recorded.psg
                  /\ added' = added \o batch
                  /\ ret' = AddRet("ok", n, cur, capacity)
                  /\ UNCHANGED <<fs_kind, dim, ff_version>>
         [] fs_kind = "absent" ->
              \* mode "a" creates an empty container; fp["vectors"] then raises
              /\ fs_kind' = "other"
              /\ ret' = [Ret("add", "KeyError") EXCEPT !.n = Len(batch)]
              /\ UNCHANGED <<capacity, dim, num_vectors, vectors, ids_doc, ids_psg,
                             ff_version, added>>
         [] fs_kind = "other" ->
              /\ ret' = [Ret("add", "KeyError") EXCEPT !.n = Len(batch)]
              /\ UNCHANGED <<file, added>>
    /\ UNCHANGED <<has_index, resize_min_val, source>>

(* Variant of Resolve: FIRSTP takes the last offset of the list, not the first. *)
ResolveLastP(m, id, docm, psgm) ==
    CASE m \in {"MAXP", "AVEP"} ->
            IF DOMAIN docm = {} THEN [status |-> "KeyError", idxs |-> <<>>]
            ELSE IF id \in DOMAIN docm THEN [status |-> "ok", idxs |-> docm[id]]
            ELSE [status |-> "ok", idxs |-> <<>>]
      [] m = "FIRSTP" ->
            IF DOMAIN docm = {} THEN [status |-> "KeyError", idxs |-> <<>>]
            ELSE IF id \in DOMAIN docm
                 THEN [status |-> "ok", idxs |-> <<docm[id][Len(docm[id])]>>]
            ELSE [status |-> "ok", idxs |-> <<>>]
      [] m = "PASSAGE" ->
            IF DOMAIN psgm = {} THEN [status |-> "KeyError", idxs |-> <<>>]
            ELSE IF id \in DOMAIN psgm THEN [status |-> "ok", idxs |-> <<psgm[id]>>]
            ELSE [status |-> "ok", idxs |-> <<>>]

(* _get_vectors, lines 129-137: the offsets one id resolves to under mode m *)
Resolve(m, id, docm, psgm) ==
    CASE m \in {"MAXP", "AVEP"} ->
            IF DOMAIN docm = {} THEN [status |-> "KeyError", idxs |-> <<>>]
            ELSE IF id \in DOMAIN docm THEN [status |-> "ok", idxs |-> docm[id]]
            ELSE [status |-> "ok", idxs |-> <<>>]
      [] m = "FIRSTP" ->
            IF DOMAIN docm = {} THEN [status |-> "KeyError", idxs |-> <<>>]
            ELSE IF id \in DOMAIN docm THEN [status |-> "ok", idxs |-> <<docm[id][1]>>]
            ELSE [status |-> "ok", idxs |-> <<>>]
      [] m = "PASSAGE" ->
            IF DOMAIN psgm = {} THEN [status |-> "KeyError", idxs |-> <<>>]
            ELSE IF id \in DOMAIN psgm THEN [status |-> "ok", idxs |-> <<psgm[id]>>]
            ELSE [status |-> "ok", idxs |-> <<>>]

(* _get_vectors, line 139: fp["vectors"][idxs] *)
TakeRows(vecs, idxs) == [j \in 1..Len(idxs) |-> vecs[idxs[j] + 1]]

(* _get_vectors, line 140: list(range(c, c + len(idxs))) *)
Range(c, n) == [j \in 1..n |-> c + (j - 1)]

(* _get_vectors, lines 128-141: the loop's locals after the first k ids *)
RECURSIVE GetLoop(_, _, _, _, _, _)
GetLoop(m, ids, docm, psgm, vecs, k) ==
    IF k = 0
    THEN [status |-> "ok", idxs |-> <<>>, vectors |-> <<>>, groups |-> <<>>, c |-> 0]
    ELSE LET prev == GetLoop(m, ids, docm, psgm, vecs, k - 1)
             r == Resolve(m, ids[k], docm, psgm)
         IN  IF prev.status # "ok" THEN prev
             ELSE IF r.status # "ok" THEN [prev EXCEPT !.status = r.status]
             ELSE [status |-> "ok",
                   idxs |-> Append(prev.idxs, r.idxs),
                   vectors |-> prev.vectors \o TakeRows(vecs, r.idxs),
                   groups |-> Append(prev.groups, Range(prev.c, Len(r.idxs))),
                   c |-> prev.c + Len(r.idxs)]

(* _get_vectors, lines 123-142: what the call returns or raises *)
GetResult(m, ids, docm, psgm, vecs) ==
    LET loop == GetLoop(m, ids, docm, psgm, vecs, Len(ids))
        base == [Ret("get", "ok") EXCEPT !.mode = m, !.ids = ids]
    IN  IF loop.status # "ok" THEN [base EXCEPT !.status = loop.status]
        ELSE IF Len(ids) = 0 THEN [base EXCEPT !.status = "ValueError"]
        ELSE [base EXCEPT !.idxs = loop.idxs, !.vectors = loop.vectors,
                          !.groups = loop.groups]

(* OnDiskIndex._get_vectors *)
GetVectors(m, ids) ==
    /\ has_index
    /\ ret' = CASE fs_kind = "store" -> GetResult(m, ids, ids_doc, ids_psg, vectors)
                [] fs_kind = "absent" ->
                     [Ret("get", "FileNotFoundError") EXCEPT !.mode = m, !.ids = ids]
                [] fs_kind = "other" ->
                     [Ret("get", "KeyError") EXCEPT !.mode = m, !.ids = ids]
    /\ UNCHANGED <<file, has_index, resize_min_val, added, source>>

(* _add interrupted by an exception (an I/O error, a dataset name h5py rejects).   *)
(* The file is closed by the with statement, so every write made before the        *)
(* failing statement stays in the file.  step names the failing statement:         *)
(*   "resize" line 93, "write" line 96 (after k rows), "count" line 97,            *)
(*   "doc" lines 102-105 for item k, "psg" lines 108-109 for item k.               *)
AddFail(batch, step, k) ==
    /\ has_index
    /\ fs_kind = "store"
    /\ num_vectors + Len(batch) <= MaxVectors
    /\ LET n == Len(batch)
           cur == num_vectors
           new_size == NewSize(capacity, cur, n, resize_min_val)
           resized == Resize(vectors, new_size)
           before_k == RecordIds(ids_doc, ids_psg, batch, cur, k - 1)
           rows == BatchRows(batch)
       IN  /\ CASE step = "resize" ->
                     /\ n > capacity - cur
                     /\ UNCHANGED <<capacity, vectors, num_vectors, ids_doc, ids_psg>>
                [] step = "write" ->
                     /\ k \in 0..(n - 1)
                     /\ capacity' = new_size
                     /\ vectors' = WriteRows(resized, cur, SubSeq(rows, 1, k))
                     /\ UNCHANGED <<num_vectors, ids_doc, ids_psg>>
                [] step = "count" ->
                     /\ capacity' = new_size
                     /\ vectors' = WriteRows(resized, cur, rows)
                     /\ UNCHANGED <<num_vectors, ids_doc, ids_psg>>
                [] step = "doc" ->
                     /\ k \in 1..n
                     /\ batch[k].doc # None
                     /\ capacity' = new_size
                     /\ vectors' = WriteRows(resized, cur, rows)
                     /\ num_vectors' = cur + n
                     /\ ids_doc' = before_k.doc
                     /\ ids_psg' = before_k.psg
                [] step = "psg" ->
                     /\ k \in 1..n
                     /\ batch[k].psg # None
                     /\ capacity' = new_size
                     /\ vectors' = WriteRows(resized, cur, rows)
                     /\ num_vectors' = cur + n
                     /\ ids_doc' = RecordDoc(before_k.doc, batch[k].doc, cur + (k - 1))
                     /\ ids_psg' = before_k.psg
           /\ ret' = AddRet("Exception", n, cur, capacity)
    /\ UNCHANGED <<fs_kind, dim, ff_version, has_index, resize_min_val, added, source>>

FailPoints ==
    {<<"resize", 0>>, <<"count", 0>>}
        \cup {<<"write", k>> : k \in 0..(MaxBatch - 1)}
        \cup {<<step, k>> : step \in {"doc", "psg"}, k \in 1..MaxBatch}


(***************************************************************************)
(* fast_forward.util.create_coalesced_index.  Vectors have one component;  *)
(* a stored source vector is an integer, a vector the coalescer emits is   *)
(* the exact mean <<numerator, denominator>> in lowest terms.  The         *)
(* distance function, an argument of the call, is the absolute difference. *)
(***************************************************************************)
SrcRows == {1, 2, 3}
Inf == <<"inf", 0>>
Deltas == {<<"fin", 0>>, <<"fin", 2>>, Inf}
BatchSizes == 0..MaxBatchSize      \* 0 stands for both None and 0: `batch_size or ...`

(* Index.add with a store given as a value: the steps of _add, lines 81-109 *)
AddTo(st, batch, rmv) ==
    LET n == Len(batch)
        cur == st.num_vectors
        new_size == NewSize(st.capacity, cur, n, rmv)
        recorded == RecordIds(st.ids_doc, st.ids_psg, batch, cur, n)
    IN  Store(new_size, cur + n,
              WriteRows(Resize(st.vectors, new_size), cur, BatchRows(batch)),
              recorded.doc, recorded.psg)

(* A source index: created empty, then filled by one add. *)
SourceOf(batch, m) == WithMode(AddTo(EmptyStore(0), batch, 0), m)

(* The passage ids of the source are consulted under PASSAGE only, so sources that  *)
(* carry passage ids are drawn for that mode, with one row value.                   *)
SrcEntries(m) ==
    IF m = "PASSAGE" THEN [vec : {1}, doc : Ids, psg : {None, "a"}]
    ELSE [vec : SrcRows, doc : Ids, psg : {None}]

Sources ==
    UNION {{SourceOf(b, m) : b \in [1..n -> SrcEntries(m)]} : n \in 0..MaxSrc, m \in Modes}

InitCoalesce ==
    /\ InitFile
    /\ source \in Sources

Abs(x) == IF x < 0 THEN 0 - x ELSE x

RECURSIVE GCD(_, _)
GCD(a, b) == IF b = 0 THEN a ELSE GCD(b, a % b)

RECURSIVE Sum(_, _)
Sum(A, k) == IF k = 0 THEN 0 ELSE Sum(A, k - 1) + A[k]

(* _coalesce, line 67: np.mean(A, axis=0) *)
Mean(A) ==
    LET g == GCD(Sum(A, Len(A)), Len(A))
    IN  <<Sum(A, Len(A)) \div g, Len(A) \div g>>

(* _coalesce, line 58: np.empty(()) is memory that was never written.  A call either   *)
(* fails when such a value is to be added (np.array of the buffer, lines 75 and 84) or *)
(* adds it with the content the memory happened to have; <<g, 0>> is such a content.   *)
UninitOutcomes == {<<"raise", 0>>, <<"add", 0>>, <<"add", 1>>}

Empty(uninit) == <<uninit[2], 0>>

IsUninit(v) == v[2] = 0

(* Variant of Boundary: a distance equal to delta does not close the cluster. *)
BoundaryStrict(v, A_avg, delta) ==
    delta # Inf /\ Abs(v * A_avg[2] - A_avg[1]) > delta[2] * A_avg[2]

(* _coalesce, line 63: distance_function(v, A_avg) >= delta *)
Boundary(v, A_avg, delta) ==
    delta # Inf /\ Abs(v * A_avg[2] - A_avg[1]) >= delta[2] * A_avg[2]

(* _coalesce, lines 61-66: one iteration, from the P_new and A of the iterations before; *)
(* A is empty in the first iteration only                                               *)
CoalesceStep(prev, v, delta) ==
    IF prev.A # <<>> /\ Boundary(v, Mean(prev.A), delta)
    THEN [P_new |-> Append(prev.P_new, Mean(prev.A)), A |-> <<v>>]
    ELSE [P_new |-> prev.P_new, A |-> Append(prev.A, v)]

(* _coalesce, lines 60-67: P_new and A after the first k vectors of P *)
RECURSIVE CoalesceLoop(_, _, _)
CoalesceLoop(P, delta, k) ==
    IF k = 0 THEN [P_new |-> <<>>, A |-> <<>>]
    ELSE CoalesceStep(CoalesceLoop(P, delta, k - 1), P[k], delta)

(* _coalesce, lines 55-69; empty is the value of np.empty(()) *)
Coalesce(P, delta, empty) ==
    LET end == CoalesceLoop(P, delta, Len(P))
    IN  Append(end.P_new, IF Len(P) = 0 THEN empty ELSE Mean(end.A))

(* line 53: batch_size = batch_size or len(source_index.doc_ids) *)
BatchSize(batch_size, src) ==
    IF batch_size = 0 THEN Cardinality(DOMAIN src.ids_doc) ELSE batch_size

(* line 74: len(vectors) == batch_size *)
BatchFull(buffered, batch_size) == buffered = batch_size

(* The arguments of target_index.add(np.array(vectors), doc_ids=doc_ids) as a batch of _add *)
BatchOf(vecs, doc_ids) ==
    [i \in 1..Len(vecs) |-> [vec |-> vecs[i], doc |-> doc_ids[i], psg |-> None]]

(* lines 75 and 84: np.array(vectors) of a buffer that holds a never-written value *)
FlushRaises(vecs, uninit) ==
    uninit[1] = "raise" /\ \E i \in 1..Len(vecs) : IsUninit(vecs[i])

(* Variant of Buffered: the flushed vectors stay in the buffer. *)
BufferedKept(full, vecs, v_new) == vecs \o v_new

(* lines 76 and 80: the buffer after one document *)
Buffered(full, vecs, v_new) == (IF full THEN <<>> ELSE vecs) \o v_new

(* lines 73-81: one iteration, from the loop's variables after the iterations before *)
DocStep(prev, src, rmv, delta, batch_size, doc_id, uninit) ==
    LET full == BatchFull(Len(prev.vectors), batch_size)
        got == GetResult(src.mode, <<doc_id>>, src.ids_doc, src.ids_psg, src.vectors)
        v_new == Coalesce(got.vectors, delta, Empty(uninit))
        entry == [doc |-> doc_id, buffered |-> Len(prev.vectors), flushed |-> full,
                  P |-> got.vectors, v_new |-> v_new]
    IN  IF prev.status # "ok" THEN prev
        ELSE IF full /\ FlushRaises(prev.vectors, uninit)
        THEN [prev EXCEPT !.status = "ValueError"]
        ELSE LET flushed == IF full
                            THEN AddTo(prev.target, BatchOf(prev.vectors, prev.doc_ids), rmv)
                            ELSE prev.target
             IN  IF got.status # "ok"
                 THEN [prev EXCEPT !.status = got.status, !.target = flushed]
                 ELSE [status |-> "ok",
                       target |-> flushed,
                       vectors |-> Buffered(full, prev.vectors, v_new),
                       doc_ids |-> Buffered(full, prev.doc_ids,
                                            [j \in 1..Len(v_new) |-> doc_id]),
                       trace |-> Append(prev.trace, entry)]

(* lines 72-81: the loop's variables after the first k documents of the iteration order *)
RECURSIVE DocLoop(_, _, _, _, _, _, _, _)
DocLoop(src, tgt, rmv, delta, batch_size, order, uninit, k) ==
    IF k = 0
    THEN [status |-> "ok", target |-> tgt, vectors |-> <<>>, doc_ids |-> <<>>, trace |-> <<>>]
    ELSE DocStep(DocLoop(src, tgt, rmv, delta, batch_size, order, uninit, k - 1),
                 src, rmv, delta, batch_size, order[k], uninit)

(* Variant of Remainder: what is left in the buffer after the loop is not added. *)
RemainderDropped(vecs) == FALSE

(* line 83: len(vectors) > 0 *)
Remainder(vecs) == Len(vecs) > 0

(* lines 83-86, from the loop's variables after the last document *)
Finish(loop, src, rmv, uninit) ==
    LET rest == Remainder(loop.vectors)
        final == IF rest
                 THEN AddTo(loop.target, BatchOf(loop.vectors, loop.doc_ids), rmv)
                 ELSE loop.target
    IN  IF loop.status # "ok"
        THEN [status |-> loop.status, line |-> IF loop.status = "KeyError" THEN 78 ELSE 75,
              target |-> loop.target, trace |-> loop.trace]
        ELSE IF rest /\ FlushRaises(loop.vectors, uninit)
        THEN [status |-> "ValueError", line |-> 84, target |-> loop.target,
              trace |-> loop.trace]
        ELSE IF DOMAIN src.ids_doc # DOMAIN final.ids_doc
        THEN [status |-> "AssertionError", line |-> 86, target |-> final,
              trace |-> loop.trace]
        ELSE [status |-> "ok", line |-> 0, target |-> final, trace |-> loop.trace]

(* Variant of TargetHasNoDocs: the assertion is left out. *)
TargetUnchecked(tgt) == TRUE

(* line 52: len(target_index.doc_ids) == 0 *)
TargetHasNoDocs(tgt) == Cardinality(DOMAIN tgt.ids_doc) = 0

(* create_coalesced_index, lines 52-86, from the target's file tgt: the exception raised *)
(* if any, the line that raised it, the target's file afterwards and the loop's course.   *)
Run(src, tgt, rmv, delta, batch_size, order, uninit) ==
    IF ~TargetHasNoDocs(tgt)
    THEN [status |-> "AssertionError", line |-> 52, target |-> tgt, trace |-> <<>>]
    ELSE Finish(DocLoop(src, tgt, rmv, delta, BatchSize(batch_size, src), order,
                        uninit, Len(order)),
                src, rmv, uninit)

(* The orders in which a set can be iterated. *)
Orders(S) ==
    {o \in [1..Cardinality(S) -> S] : \A i, j \in 1..Cardinality(S) : o[i] = o[j] => i = j}

AllOrders == UNION {Orders(S) : S \in SUBSET Ids}

(* source_index._get_vectors([doc_id]) returns normally and without a vector. *)
Misses(src, doc_id) ==
    LET got == Resolve(src.mode, doc_id, src.ids_doc, src.ids_psg)
    IN  got.status = "ok" /\ got.idxs = <<>>

(* The vectors a coalescing appended to the target, as entries of the history. *)
Written(tgt, cur) ==
    [i \in 1..(tgt.num_vectors - cur) |->
        [vec |-> tgt.vectors[cur + i],
         doc |-> CHOOSE d \in DOMAIN tgt.ids_doc :
                    \E j \in 1..Len(tgt.ids_doc[d]) : tgt.ids_doc[d][j] = cur + i - 1,
         psg |-> None]]

(* The target's file as a value. *)
TargetStore == Store(capacity, num_vectors, vectors, ids_doc, ids_psg)

(* create_coalesced_index(source, target, delta, distance_function, batch_size); the *)
(* distance function is the absolute difference.  A behaviour holds one such call.  *)
CreateCoalescedIndex(delta, batch_size, order, uninit) ==
    /\ has_index
    /\ fs_kind = "store"
    /\ ret.op # "coalesce"
    /\ order \in Orders(DOMAIN source.ids_doc)
    /\ uninit # <<"raise", 0>> => \E d \in DOMAIN source.ids_doc : Misses(source, d)
    /\ \E run \in {Run(source, TargetStore, resize_min_val, delta, batch_size, order, uninit)} :
           /\ capacity' = run.target.capacity
           /\ num_vectors' = run.target.num_vectors
           /\ vectors' = run.target.vectors
           /\ ids_doc' = run.target.ids_doc
           /\ ids_psg' = run.target.ids_psg
           /\ added' = added \o Written(run.target, num_vectors)
           /\ ret' = IF run.line = 52
                     THEN [Ret("coalesce", run.status) EXCEPT !.line = 52]
                     ELSE [Ret("coalesce", run.status) EXCEPT
                               !.delta = delta, !.batch_size = batch_size,
                               !.order = order, !.uninit = uninit,
                               !.line = run.line, !.trace = run.trace]
    /\ UNCHANGED <<fs_kind, dim, ff_version, has_index, resize_min_val, source>>

(* What a target holds before coalescing, if anything: a vector of a document or a *)
(* vector of a passage.                                                            *)
Prefill == {[vec |-> 1, doc |-> "a", psg |-> None], [vec |-> 1, doc |-> None, psg |-> "a"]}

NextAppend ==
    \/ \E d \in Dims, s \in 0..MaxInitSize, r \in ResizeMinVals, o \in BOOLEAN :
          Create(d, s, r, o)
    \/ \E r \in ResizeMinVals : Load(r)
    \/ \E n \in 0..MaxBatch : n <= MaxVectors - num_vectors /\ \E b \in BatchesOf(n) : Add(b)

Next ==
    \/ NextAppend
    \/ \E m \in Modes, ids \in Requests : GetVectors(m, ids)

NextFail ==
    \/ NextAppend
    \/ \E n \in 0..MaxBatch, pt \in FailPoints :
          n <= MaxVectors - num_vectors /\ \E b \in BatchesOf(n) : AddFail(b, pt[1], pt[2])

(* A target is created and perhaps given one vector, then the source is coalesced into it. *)
NextCoalesce ==
    \/ \E s \in 0..MaxInitSize : fs_kind = "absent" /\ Create(1, s, 0, FALSE)
    \/ \E e \in Prefill : num_vectors = 0 /\ Add(<<e>>)
    \/ \E delta \in Deltas, batch_size \in BatchSizes, order \in AllOrders,
          uninit \in UninitOutcomes :
          CreateCoalescedIndex(delta, batch_size, order, uninit)

(* Creation, loading and appends. *)
SpecAppend == Init /\ [][NextAppend]_vars

(* Creation, loading, appends and lookups. *)
Spec == Init /\ [][Next]_vars

(* Creation, loading and appends, any of which an exception may interrupt. *)
SpecFail == Init /\ [][NextFail]_vars

(* Coalescing a source index into the index file. *)
SpecCoalesce == InitCoalesce /\ [][NextCoalesce]_vars

(***************************************************************************)
(* Properties.                                                             *)
(***************************************************************************)

(* Offsets (0-based) of the appended items that carried document id d / passage id p. *)
DocOffsetSet(d) == {i - 1 : i \in {x \in 1..Len(added) : added[x].doc = d}}

PsgOffsetSet(p) == {i - 1 : i \in {x \in 1..Len(added) : added[x].psg = p}}

StrictlyIncreasing(s) == \A j \in 1..(Len(s) - 1) : s[j] < s[j + 1]

SeqRange(s) == {s[j] : j \in 1..Len(s)}

IsPrefix(s, t) == Len(s) <= Len(t) /\ \A j \in 1..Len(s) : s[j] = t[j]

(* Number of positions in the first k groups. *)
RECURSIVE TotalLen(_, _)
TotalLen(gs, k) == IF k = 0 THEN 0 ELSE TotalLen(gs, k - 1) + Len(gs[k])

(* The index _get_vectors consults under mode m. *)
RelevantIds(m) == IF m = "PASSAGE" THEN GetPsgIds ELSE GetDocIds

(* C1: after any sequence of appends to a created store, len() is the total number  *)
(* of vectors appended (the sum of the batch sizes) and slot i holds the i-th vector *)
(* appended overall.                                                                 *)
C1_AppendedInOrder ==
    fs_kind = "store" =>
        /\ IndexLen = Len(added)
        /\ \A i \in 0..(IndexLen - 1) : vectors[i + 1] = added[i + 1].vec

(* A second append that had to grow the dataset, after which two different rows are stored. *)
C1_Witness ==
    /\ ret.op = "add" /\ ret.status = "ok"
    /\ ret.resized /\ ret.cur >= 1
    /\ IndexLen >= 2
    /\ added[1].vec # added[2].vec

(* C2: a successful append leaves every row below the old count as it was, and every *)
(* document's old offset list is a prefix of its new list.                           *)
C2_AppendKeepsStored ==
    [][(ret'.op = "add" /\ ret'.status = "ok") =>
          /\ \A i \in 1..num_vectors : vectors'[i] = vectors[i]
          /\ \A d \in DOMAIN ids_doc :
                d \in DOMAIN ids_doc' /\ IsPrefix(ids_doc[d], ids_doc'[d])]_vars

(* An append that resized a non-empty store and extended an existing document's list. *)
C2_Witness ==
    /\ ret.op = "add" /\ ret.status = "ok"
    /\ ret.resized /\ ret.cur >= 1 /\ ret.n >= 1
    /\ \E d \in DOMAIN ids_doc :
          /\ Len(ids_doc[d]) >= 2
          /\ ids_doc[d][1] < ret.cur
          /\ ids_doc[d][Len(ids_doc[d])] >= ret.cur

(* C3: an append that resizes grows the capacity by at least resize_min_val and to   *)
(* at least count_before + n.                                                        *)
C3_GrowsByAtLeastIncrement ==
    (ret.op = "add" /\ ret.status = "ok" /\ ret.resized) =>
        /\ capacity - ret.cap >= resize_min_val
        /\ capacity >= ret.cur + ret.n

(* C4: an append that fails leaves count, the rows below count and the identifier    *)
(* index as they were before the call.                                               *)
C4_FailedAppendIsAtomic ==
    [][(ret'.op = "add" /\ ret'.status # "ok" /\ fs_kind = "store") =>
          /\ num_vectors' = num_vectors
          /\ \A i \in 1..num_vectors : vectors'[i] = vectors[i]
          /\ ids_doc' = ids_doc
          /\ ids_psg' = ids_psg]_vars

(* C5: for an id present in the index the mode consults, the lookup returns normally *)
(* and resolves the id to the passage's offset (PASSAGE), to the offset of the       *)
(* earliest vector appended under the document (FIRSTP), or to the offsets of all    *)
(* vectors appended under the document in insertion order (MAXP, AVEP); the stored   *)
(* offset lists are these whatever the mode.                                         *)
C5_ModeResolution ==
    (ret.op = "get" /\ fs_kind = "store") =>
        /\ \A d \in Ids :
              IF DocOffsetSet(d) = {} THEN d \notin GetDocIds
              ELSE /\ d \in GetDocIds
                   /\ StrictlyIncreasing(ids_doc[d])
                   /\ SeqRange(ids_doc[d]) = DocOffsetSet(d)
        /\ \A i \in 1..Len(ret.ids) :
              ret.ids[i] \in RelevantIds(ret.mode) =>
                 /\ ret.status = "ok"
                 /\ CASE ret.mode = "PASSAGE" ->
                            ret.idxs[i] = <<ids_psg[ret.ids[i]]>>
                      [] ret.mode = "FIRSTP" ->
                            /\ Len(ret.idxs[i]) = 1
                            /\ ret.idxs[i][1] \in DocOffsetSet(ret.ids[i])
                            /\ \A o \in DocOffsetSet(ret.ids[i]) : ret.idxs[i][1] <= o
                      [] ret.mode \in {"MAXP", "AVEP"} ->
                            /\ StrictlyIncreasing(ret.idxs[i])
                            /\ SeqRange(ret.idxs[i]) = DocOffsetSet(ret.ids[i])

(* A FIRSTP lookup of a document that owns two vectors. *)
C5_Witness ==
    /\ ret.op = "get" /\ ret.status = "ok" /\ ret.mode = "FIRSTP"
    /\ Len(ret.ids) >= 1
    /\ ret.ids[1] \in GetDocIds
    /\ Len(ids_doc[ret.ids[1]]) >= 2
    /\ ret.idxs[1] = <<ids_doc[ret.ids[1]][1]>>

(* C6: a lookup whose batch contains an id absent from the index the mode consults   *)
(* returns normally, with an empty group for that id and the other ids resolved.     *)
C6_MissIsNotFatal ==
    (/\ ret.op = "get"
     /\ fs_kind = "store"
     /\ \E i \in 1..Len(ret.ids) : ret.ids[i] \notin RelevantIds(ret.mode)) =>
        /\ ret.status = "ok"
        /\ Len(ret.groups) = Len(ret.ids)
        /\ \A i \in 1..Len(ret.ids) :
              (ret.groups[i] = <<>>) <=> (ret.ids[i] \notin RelevantIds(ret.mode))

(* C7: every lookup returns one group per requested id, in request order; the groups *)
(* are adjacent ranges that cover the positions of the result, and the row at        *)
(* position groups[i][j] is the stored row at the j-th offset ids[i] resolves to.    *)
C7_GroupsPartitionResult ==
    (ret.op = "get" /\ fs_kind = "store") =>
        /\ ret.status = "ok"
        /\ Len(ret.groups) = Len(ret.ids)
        /\ Len(ret.idxs) = Len(ret.ids)
        /\ \A i \in 1..Len(ret.ids) :
              LET g == ret.groups[i]
                  start == TotalLen(ret.groups, i - 1)
              IN  /\ Len(g) = Len(ret.idxs[i])
                  /\ \A j \in 1..Len(g) : g[j] = start + (j - 1)
                  /\ \A j \in 1..Len(g) :
                        ret.vectors[g[j] + 1] = vectors[ret.idxs[i][j] + 1]
        /\ UNION {SeqRange(ret.groups[i]) : i \in 1..Len(ret.ids)}
              = 0..(Len(ret.vectors) - 1)

(* C8: each passage id maps to the offset of the last vector appended under it; the  *)
(* earlier vectors appended under it are still stored; an append to a store never    *)
(* fails because a passage id was recorded before.                                   *)
C8_PassageLastWriteWins ==
    fs_kind = "store" =>
        /\ GetPsgIds = {p \in Ids : PsgOffsetSet(p) # {}}
        /\ \A p \in GetPsgIds :
              /\ ids_psg[p] \in PsgOffsetSet(p)
              /\ \A o \in PsgOffsetSet(p) :
                    /\ o <= ids_psg[p]
                    /\ o < IndexLen
                    /\ vectors[o + 1] = added[o + 1].vec
        /\ ret.op = "add" => ret.status = "ok"

(* One batch carried the same passage id twice, with different rows. *)
C8_Witness ==
    /\ ret.op = "add" /\ ret.status = "ok" /\ ret.n = 2
    /\ LET k == Len(added)
       IN  /\ added[k].psg # None
           /\ added[k - 1].psg = added[k].psg
           /\ added[k - 1].vec # added[k].vec
           /\ ids_psg[added[k].psg] = k - 1

(* C9: creating over an existing file without overwrite raises and leaves the file   *)
(* as it was; otherwise the file becomes a store with count 0, capacity init_size,   *)
(* the given dim and no document or passage id.                                      *)
C9_CreateRefusesOrResets ==
    [][ret'.op = "create" =>
          IF fs_kind # "absent" /\ ~ret'.overwrite
          THEN /\ ret'.status = "ValueError"
               /\ UNCHANGED file
          ELSE /\ ret'.status = "ok"
               /\ fs_kind' = "store"
               /\ num_vectors' = 0
               /\ capacity' = ret'.init_size
               /\ Len(vectors') = ret'.init_size
               /\ dim' = ret'.dim
               /\ DOMAIN ids_doc' = {}
               /\ DOMAIN ids_psg' = {}]_vars

(* A create without overwrite was refused on a store that holds vectors and ids. *)
C9_Witness ==
    /\ ret.op = "create" /\ ret.status = "ValueError"
    /\ fs_kind = "store"
    /\ IndexLen >= 1
    /\ GetDocIds # {}
    /\ GetPsgIds # {}

(* C10: loading a path that holds no valid store fails at load time. *)
C10_LoadRejectsInvalid ==
    (ret.op = "load" /\ fs_kind # "store") =>
        ret.status \in {"NotFound", "CorruptFormat"}

(* C17: in every state count lies between 0 and capacity, and no step other than a   *)
(* create (which starts the file afresh) lowers the capacity: appends, empty ones    *)
(* included, only keep or raise it.                                                  *)
C17_CountWithinCapacity ==
    [][/\ 0 <= num_vectors /\ num_vectors <= capacity
       /\ 0 <= num_vectors' /\ num_vectors' <= capacity'
       /\ Len(vectors') = capacity'
       /\ ret'.op # "create" => capacity' >= capacity]_vars

(* An append to a non-empty store that had to grow the dataset and filled it. *)
C17_Witness ==
    /\ ret.op = "add" /\ ret.status = "ok"
    /\ ret.resized /\ ret.cur >= 1
    /\ capacity > ret.cap
    /\ num_vectors = capacity

(* C19: every offset recorded for a document or a passage is below count, every      *)
(* document's offset list is non-empty and strictly increasing, and every offset an  *)
(* id-based lookup reads is below count, so no lookup reads the reserved slots.      *)
C19_OffsetsBelowCount ==
    fs_kind = "store" =>
        /\ \A d \in GetDocIds :
              /\ Len(ids_doc[d]) >= 1
              /\ StrictlyIncreasing(ids_doc[d])
              /\ \A j \in 1..Len(ids_doc[d]) : ids_doc[d][j] >= 0 /\ ids_doc[d][j] < IndexLen
        /\ \A p \in GetPsgIds : ids_psg[p] >= 0 /\ ids_psg[p] < IndexLen
        /\ ret.op = "get" =>
              /\ ret.status \in {"ok", "KeyError", "ValueError"}
              /\ \A i \in 1..Len(ret.idxs) : \A j \in 1..Len(ret.idxs[i]) :
                    ret.idxs[i][j] >= 0 /\ ret.idxs[i][j] < IndexLen

(* A lookup by document id in a store that has reserved slots beyond count. *)
C19_Witness ==
    /\ ret.op = "get" /\ ret.status = "ok" /\ ret.mode = "MAXP"
    /\ num_vectors >= 1 /\ num_vectors < capacity
    /\ Len(ret.idxs) >= 1 /\ Len(ret.idxs[1]) >= 1

(***************************************************************************)
(* Properties of create_coalesced_index.                                   *)
(***************************************************************************)

(* C11: coalescing into a target that holds at least one document id fails on the     *)
(* assertion of line 52, and the call leaves the target's count, capacity, rows and   *)
(* identifier index, and the source, exactly as they were.                            *)
C11_TargetWithDocsIsRefused ==
    [][(ret'.op = "coalesce" /\ GetDocIds # {}) =>
          /\ ret'.status = "AssertionError"
          /\ ret'.line = 52
          /\ UNCHANGED <<capacity, num_vectors, vectors, ids_doc, ids_psg>>
          /\ UNCHANGED source]_vars

(* A source with documents was refused by a target that holds a document's vector. *)
C11_Witness ==
    /\ ret.op = "coalesce" /\ ret.status = "AssertionError" /\ ret.line = 52
    /\ GetDocIds # {}
    /\ IndexLen >= 1
    /\ DOMAIN source.ids_doc # {}

(* C18: coalescing into a target that holds at least one vector, whether or not any   *)
(* of its vectors carries a document id, fails on the precondition and writes nothing *)
(* to the target.                                                                     *)
C18_NonEmptyTargetIsRefused ==
    [][(ret'.op = "coalesce" /\ IndexLen > 0) =>
          /\ ret'.status = "AssertionError"
          /\ ret'.line = 52
          /\ UNCHANGED <<capacity, num_vectors, vectors, ids_doc, ids_psg>>]_vars

(* C12: coalescing never changes the source; a call that returns normally leaves the  *)
(* target with exactly the source's set of document ids, whatever delta, batch_size   *)
(* and source; and into a target without document ids the call does return normally  *)
(* whenever the source is read by document (any mode but PASSAGE), an empty source    *)
(* included.                                                                          *)
C12_SameDocIds ==
    [][ret'.op = "coalesce" =>
          /\ source' = source
          /\ ret'.status = "ok" => DOMAIN ids_doc' = DOMAIN source.ids_doc
          /\ (GetDocIds = {} /\ source.mode # "PASSAGE") => ret'.status = "ok"]_vars

(* Two documents were coalesced with batch_size 1 and one of them emitted two vectors. *)
C12_Witness ==
    /\ ret.op = "coalesce" /\ ret.status = "ok"
    /\ ret.batch_size = 1
    /\ Cardinality(GetDocIds) = 2
    /\ \E i \in 1..Len(ret.trace) : Len(ret.trace[i].v_new) >= 2

(* Number of vectors of the source that are attached to a document. *)
SourceDocVectors ==
    Cardinality(UNION {{source.ids_doc[d][j] : j \in 1..Len(source.ids_doc[d])} :
                          d \in DOMAIN source.ids_doc})

(* C13: after a coalescing that returned normally, with k the number of vectors a     *)
(* source document has and m the number written for it to the target, 1 <= m <= k,    *)
(* m = k when delta is 0 and m = 1 when delta is infinite; and the length of the      *)
(* target lies between the number of source documents and the number of source        *)
(* vectors attached to documents.                                                     *)
C13_OutputCountBounds ==
    [][(ret'.op = "coalesce" /\ ret'.status = "ok") =>
          /\ \A d \in DOMAIN source.ids_doc :
                LET k == Len(source.ids_doc[d])
                    m == Len(ids_doc'[d])
                IN  /\ 1 <= m /\ m <= k
                    /\ ret'.delta = <<"fin", 0>> => m = k
                    /\ ret'.delta = Inf => m = 1
          /\ Cardinality(DOMAIN source.ids_doc) <= num_vectors'
          /\ num_vectors' <= SourceDocVectors]_vars

(* Number of vectors the documents of the first k trace entries emitted. *)
RECURSIVE Emitted(_, _)
Emitted(trace, k) == IF k = 0 THEN 0 ELSE Emitted(trace, k - 1) + Len(trace[k].v_new)

(* C14: whenever the buffer holds at least batch_size vectors when the next document  *)
(* is about to be processed, it is added to the target and emptied first; and after   *)
(* a normal return every emitted vector is in the target.                             *)
C14_FlushAtBatchSize ==
    [][(ret'.op = "coalesce" /\ ret'.line # 52) =>
          /\ \A i \in 1..Len(ret'.trace) :
                ret'.trace[i].buffered >= BatchSize(ret'.batch_size, source)
                    => ret'.trace[i].flushed
          /\ ret'.status = "ok" =>
                num_vectors' = num_vectors + Emitted(ret'.trace, Len(ret'.trace))]_vars

(* C15: under every mode of the source, the call reads every document (line 78 does   *)
(* not raise) and the sequence fed to the merging pass for a document is the stored   *)
(* vectors at the document's full offset list, in insertion order.                    *)
C15_AllVectorsAreFed ==
    (ret.op = "coalesce" /\ ret.line # 52) =>
        /\ ret.line # 78
        /\ \A i \in 1..Len(ret.trace) :
              ret.trace[i].P = TakeRows(source.vectors, source.ids_doc[ret.trace[i].doc])

(* The start of the run that position i lies in, for the set S of run starts. *)
RunStart(S, i) == CHOOSE s \in S : s <= i /\ \A t \in S : t <= i => t <= s

(* The last position of the run that starts at s, in a sequence of k positions. *)
RunEnd(S, s, k) == IF \E t \in S : t > s
                   THEN (CHOOSE t \in S : t > s /\ \A u \in S : u > s => u >= t) - 1
                   ELSE k

(* v is the arithmetic mean of P[a..b]. *)
IsMeanOf(v, P, a, b) ==
    /\ v[2] > 0
    /\ v[1] * (b - a + 1) = Sum(SubSeq(P, a, b), b - a + 1) * v[2]

(* The runs started at S are those of the greedy rule: the first position starts a    *)
(* run, and a later position i starts one exactly when the distance of P[i] to the    *)
(* mean of the run so far, P[RunStart(S, i - 1)..i - 1], is at least delta.           *)
GreedyStarts(S, P, delta) ==
    /\ 1 \in S
    /\ \A i \in 2..Len(P) :
          LET a == RunStart(S, i - 1)
              n == i - a
          IN  i \in S <=>
                 /\ delta[1] = "fin"
                 /\ Abs(P[i] * n - Sum(SubSeq(P, a, i - 1), n)) >= delta[2] * n

(* C16: for every document whose vectors P are fed to the merging pass, the emitted   *)
(* vectors are, in order, the means of the consecutive runs that partition P and that *)
(* the left-to-right greedy rule draws, with a boundary at a distance equal to delta; *)
(* the last run's mean is emitted.                                                    *)
C16_GreedyRuns ==
    (ret.op = "coalesce" /\ ret.line # 52) =>
        \A i \in 1..Len(ret.trace) :
            LET P == ret.trace[i].P
                out == ret.trace[i].v_new
            IN  P # <<>> =>
                  \E S \in SUBSET (1..Len(P)) :
                      /\ GreedyStarts(S, P, ret.delta)
                      /\ Len(out) = Cardinality(S)
                      /\ \A s \in S :
                            IsMeanOf(out[Cardinality({t \in S : t <= s})], P, s,
                                     RunEnd(S, s, Len(P)))

(* Three vectors 1, 3, 2 with delta 2: 3 is at distance exactly delta of 1 and opens  *)
(* a run, 2 joins it, and the means 1 and 5/2 are emitted.                            *)
C16_Witness ==
    /\ ret.op = "coalesce" /\ ret.status = "ok"
    /\ ret.delta = <<"fin", 2>>
    /\ \E i \in 1..Len(ret.trace) :
          /\ ret.trace[i].P = <<1, 3, 2>>
          /\ ret.trace[i].v_new = << <<1, 1>>, <<5, 2>> >>

(* C20: a coalescing with batch_size >= 1 that returns normally leaves the target     *)
(* with the same count, the same vector at every offset below count and the same      *)
(* document offset lists as the unbatched call (batch_size left to default to the     *)
(* number of source documents) on the same source, target, delta and iteration order, *)
(* which returns normally too; where a never-written value is emitted, both calls are *)
(* taken to find the same content in it.                                              *)
C20_BatchingKeepsResult ==
    [][(ret'.op = "coalesce" /\ ret'.status = "ok" /\ ret'.batch_size >= 1) =>
          \A ref \in {Run(source, TargetStore, resize_min_val, ret'.delta, 0, ret'.order,
                          ret'.uninit)} :
              /\ ref.status = "ok"
              /\ num_vectors' = ref.target.num_vectors
              /\ \A i \in 1..num_vectors' : vectors'[i] = ref.target.vectors[i]
              /\ ids_doc' = ref.target.ids_doc]_vars

(* Two documents coalesced with batch_size 1: the first document's vector was added   *)
(* before the second document was read, the second's after the loop.                  *)
C20_Witness ==
    /\ ret.op = "coalesce" /\ ret.status = "ok"
    /\ ret.batch_size = 1
    /\ Len(ret.trace) = 2
    /\ ret.trace[2].flushed
    /\ IndexLen >= 2
    /\ Cardinality(GetDocIds) = 2

====
